---- MODULE Spec2Model ----
(***************************************************************************)
(* Route store of the admin console front end                              *)
(* (ui/src/store/modules/route/index.ts): the constant/authorized route    *)
(* lists, the live vue-router registrations with their retraction handles, *)
(* the menus, the cache sets and the asynchronous operations over them.    *)
(***************************************************************************)
EXTENDS Integers, Sequences, FiniteSets, Bags, TLC

(***************************************************************************)
(* Bounds of the model.                                                    *)
(***************************************************************************)
\* number of synchronizations (handleConstantAndAuthRoutes runs) per behaviour
MaxSync == 3
\* number of asynchronous calls that may be pending at the same time
MaxTasks == 2

(***************************************************************************)
(* Route definitions.  A route carries its name (the route key), its path, *)
(* meta.order, meta.keepAlive, meta.hideInMenu, meta.roles, meta.constant  *)
(* and its redirect target.                                                *)
(***************************************************************************)
NoPath == "none"
NoKey == "none"

Rt(n, p, o, k, h, r, c) ==
    [name |-> n, path |-> p, order |-> o, keepAlive |-> k, hideInMenu |-> h,
     roles |-> r, constant |-> c, redirect |-> NoPath]

\* constant routes of the static catalog, in declaration order
cAbout == Rt("about", "/about", 4, FALSE, FALSE, {}, TRUE)
cLogin == Rt("login", "/login", 0, FALSE, TRUE, {}, TRUE)
\* authorized routes of the static catalog
aManage == Rt("manage", "/manage", 3, TRUE, FALSE, {"admin"}, FALSE)
aHome == Rt("home", "/home", 1, TRUE, FALSE, {}, FALSE)
\* further routes the authorization service may deliver: a second definition
\* of "manage", and a route that shares its key with the constant "about"
aManage2 == Rt("manage", "/manage", 5, FALSE, FALSE, {}, FALSE)
aAbout == Rt("about", "/about", 2, TRUE, FALSE, {}, FALSE)

createStaticRoutes ==
    [constantRoutes |-> <<cAbout, cLogin>>, authRoutes |-> <<aManage, aHome>>]

\* the answers of fetchGetUserRoutes(): routes and home key ("dashboard" is a
\* key the route map does not know)
FetchData ==
    {[routes |-> <<aHome, aManage>>, home |-> "dashboard"],
     [routes |-> <<aManage, aManage2>>, home |-> "manage"],
     [routes |-> <<aAbout>>, home |-> "about"]}

\* the authority sets of the signed-in user (authStore.userInfo.roles)
Authorities == {{}, {"admin"}}

\* VITE_ROUTE_HOME
EnvRouteHome == "home"

\* route map of the generated router: key -> path, no path for an unknown key
getRoutePath(key) ==
    CASE key = "home" -> "/home"
      [] key = "manage" -> "/manage"
      [] key = "about" -> "/about"
      [] key = "login" -> "/login"
      [] OTHER -> NoPath

\* the builtin root route, registered when the router is created
ROOT_ROUTE ==
    [name |-> "root", path |-> "/", order |-> 0, keepAlive |-> FALSE,
     hideInMenu |-> TRUE, roles |-> {}, constant |-> TRUE,
     redirect |-> getRoutePath(EnvRouteHome)]

RouteKeys == {"about", "login", "manage", "home"}

\* the key sequences reCacheRoutesByKeys is called with
KeySeqs == {<<"home", "login", "home">>, <<"home", "manage">>}

(***************************************************************************)
(* Helpers on sequences.                                                   *)
(***************************************************************************)
Range(s) == {s[i] : i \in DOMAIN s}

Includes(s, x) == \E i \in DOMAIN s : s[i] = x

\* Array.prototype.findIndex: first index holding x, 0 when there is none
FindIndex(s, x) ==
    IF Includes(s, x) THEN CHOOSE i \in DOMAIN s : s[i] = x /\ \A j \in 1..(i - 1) : s[j] # x
    ELSE 0

\* Array.prototype.splice(index, 1)
Splice(s, i) == [j \in 1..(Len(s) - 1) |-> IF j < i THEN s[j] ELSE s[j + 1]]

Names(s) == {s[i].name : i \in DOMAIN s}

(***************************************************************************)
(* new Map(); routes.forEach(r => map.set(r.name, r)); Array.from(values): *)
(* one entry per name, at the position of the name's first occurrence,     *)
(* holding the name's last definition.                                     *)
(***************************************************************************)
LastOf(routes, n) ==
    routes[CHOOSE i \in DOMAIN routes :
              routes[i].name = n /\ \A j \in (i + 1)..Len(routes) : routes[j].name # n]

RECURSIVE MapValues(_, _)
MapValues(routes, i) ==
    IF i > Len(routes) THEN <<>>
    ELSE IF \E j \in 1..(i - 1) : routes[j].name = routes[i].name
         THEN MapValues(routes, i + 1)
         ELSE <<LastOf(routes, routes[i].name)>> \o MapValues(routes, i + 1)

addConstantRoutes(routes) == MapValues(routes, 1)

addAuthRoutes(routes) == MapValues(routes, 1)

(***************************************************************************)
(* Helpers of ./shared and of the generated router, by what they do:       *)
(* the permission filter, the stable sort by meta.order, the transform to  *)
(* vue routes, the menu projection and the cache names.                    *)
(***************************************************************************)
filterAuthRoutesByRoles(routes, roles) ==
    SelectSeq(routes, LAMBDA r : r.roles = {} \/ r.roles \cap roles # {})

\* insert r behind every element whose order is not greater (stable)
RECURSIVE InsertByOrder(_, _)
InsertByOrder(sorted, r) ==
    IF sorted = <<>> THEN <<r>>
    ELSE IF Head(sorted).order <= r.order
         THEN <<Head(sorted)>> \o InsertByOrder(Tail(sorted), r)
         ELSE <<r>> \o sorted

RECURSIVE SortFrom(_, _, _)
SortFrom(routes, i, sorted) ==
    IF i > Len(routes) THEN sorted
    ELSE SortFrom(routes, i + 1, InsertByOrder(sorted, routes[i]))

sortRoutesByOrder(routes) == SortFrom(routes, 1, <<>>)

VueRoute(r) ==
    [name |-> r.name, path |-> r.path, redirect |-> r.redirect,
     meta |-> [order |-> r.order, keepAlive |-> r.keepAlive,
               hideInMenu |-> r.hideInMenu, roles |-> r.roles, constant |-> r.constant]]

getAuthVueRoutes(routes) == [i \in DOMAIN routes |-> VueRoute(routes[i])]

Menu(r) == [key |-> r.name, routeKey |-> r.name, routePath |-> r.path]

RECURSIVE MenusFrom(_, _)
MenusFrom(routes, i) ==
    IF i > Len(routes) THEN <<>>
    ELSE IF routes[i].hideInMenu THEN MenusFrom(routes, i + 1)
         ELSE <<Menu(routes[i])>> \o MenusFrom(routes, i + 1)

getGlobalMenusByAuthRoutes(routes) == MenusFrom(routes, 1)

RECURSIVE CacheNamesFrom(_, _)
CacheNamesFrom(vueRoutes, i) ==
    IF i > Len(vueRoutes) THEN <<>>
    ELSE IF vueRoutes[i].meta.keepAlive
         THEN <<vueRoutes[i].name>> \o CacheNamesFrom(vueRoutes, i + 1)
         ELSE CacheNamesFrom(vueRoutes, i + 1)

getCacheRouteNames(vueRoutes) == CacheNamesFrom(vueRoutes, 1)

(***************************************************************************)
(* The live router.  A registration is a vue route under a handle; a       *)
(* handle is the cycle that made it and its position in that cycle.        *)
(* addRoute replaces a registration of the same name; a handle retracts    *)
(* its own registration and nothing else.                                  *)
(***************************************************************************)
Handle(cycle, pos) == [cycle |-> cycle, pos |-> pos]

RouterAddRoute(rtr, vueRoute, h) ==
    {e \in rtr : e.route.name # vueRoute.name} \cup {[handle |-> h, route |-> vueRoute]}

RouterRemoveRoute(rtr, name) == {e \in rtr : e.route.name # name}

RouterRetract(rtr, h) == {e \in rtr : e.handle # h}

\* the router as created: the builtin root route
InitialRouter == {[handle |-> Handle(0, 0), route |-> VueRoute(ROOT_ROUTE)]}

RegisteredNames(rtr) == {e.route.name : e \in rtr}

(***************************************************************************)
(* State.                                                                  *)
(***************************************************************************)
VARIABLES
    authRouteMode,        \* VITE_AUTH_ROUTE_MODE: "static" or "dynamic"
    isStaticSuper,        \* authStore.isStaticSuper
    userRoles,            \* authStore.userInfo.roles
    isInitConstantRoute,
    isInitAuthRoute,
    routeHome,
    constantRoutes,
    authRoutes,
    removeRouteFns,       \* the handles of the store's registrations
    menus,
    cacheRoutes,
    allCacheRoutes,
    router,               \* the registrations of the live router
    syncCount,            \* synchronizations so far (names the handles)
    tasks,                \* the pending asynchronous calls
    lastOp,               \* the step taken last
    events,               \* collaborator calls made by the last step
    retracted,            \* handles invoked by the last step
    hist                  \* what has been called since the last resetStore

storeVars ==
    <<isInitConstantRoute, isInitAuthRoute, routeHome, constantRoutes, authRoutes,
      removeRouteFns, menus, cacheRoutes, allCacheRoutes, router>>

envVars == <<authRouteMode, isStaticSuper, userRoles>>

vars ==
    <<authRouteMode, isStaticSuper, userRoles, isInitConstantRoute, isInitAuthRoute,
      routeHome, constantRoutes, authRoutes, removeRouteFns, menus, cacheRoutes,
      allCacheRoutes, router, syncCount, tasks, lastOp, events, retracted, hist>>

\* a pending call: where it waits, the key it reloads, the keys it has still
\* to handle (reCacheRoutesByKeys)
KeysTask(pc, key, rest) == [pc |-> pc, key |-> key, rest |-> rest]

Task(pc, key) == KeysTask(pc, key, <<>>)

NumTasks == BagCardinality(tasks)

HasFreeTask == NumTasks < MaxTasks

Pending(task) == CopiesIn(task, tasks)

Start(task) == tasks (+) SetToBag({task})

\* one pending call moves on from state `from` to state `to`
Move(from, to) == (tasks (-) SetToBag({from})) (+) SetToBag({to})

Finish(task) == tasks (-) SetToBag({task})

Op(op, pre, key, routes, home) ==
    [op |-> op, pre |-> pre, key |-> key, routes |-> routes, home |-> home]

(***************************************************************************)
(* resetVueRoutes, addRoutesToVueRouter, handleConstantAndAuthRoutes and   *)
(* handleUpdateRootRouteRedirect, as functions of the state they read.     *)
(***************************************************************************)
RECURSIVE RetractFrom(_, _, _)
RetractFrom(rtr, fns, i) ==
    IF i > Len(fns) THEN rtr
    ELSE RetractFrom(RouterRetract(rtr, fns[i]), fns, i + 1)

\* resetVueRoutes emptying the list without invoking the handles
resetVueRoutesNoInvoke(rtr, fns) ==
    [router |-> rtr, removeRouteFns |-> <<>>, retracted |-> <<>>]

\* resetVueRoutes invoking the handles without emptying the list
resetVueRoutesNoClear(rtr, fns) ==
    [router |-> RetractFrom(rtr, fns, 1), removeRouteFns |-> fns, retracted |-> fns]

resetVueRoutes(rtr, fns) ==
    [router |-> RetractFrom(rtr, fns, 1), removeRouteFns |-> <<>>, retracted |-> fns]

RECURSIVE AddFrom(_, _, _, _, _)
AddFrom(routes, i, rtr, fns, cycle) ==
    IF i > Len(routes) THEN [router |-> rtr, removeRouteFns |-> fns]
    ELSE AddFrom(routes, i + 1,
                 RouterAddRoute(rtr, routes[i], Handle(cycle, i)),
                 Append(fns, Handle(cycle, i)), cycle)

addRoutesToVueRouter(routes, rtr, fns, cycle) == AddFrom(routes, 1, rtr, fns, cycle)

\* handleConstantAndAuthRoutes whose getCacheRoutes sets allCacheRoutes only
handleConstantAndAuthRoutesAllowOnly(cRoutes, aRoutes, rtr, fns, cycle) ==
    LET sortRoutes == sortRoutesByOrder(cRoutes \o aRoutes)
        vueRoutes == getAuthVueRoutes(sortRoutes)
        reset == resetVueRoutes(rtr, fns)
        added == addRoutesToVueRouter(vueRoutes, reset.router, reset.removeRouteFns, cycle)
    IN  [router |-> added.router,
         removeRouteFns |-> added.removeRouteFns,
         menus |-> getGlobalMenusByAuthRoutes(sortRoutes),
         cacheRoutes |-> <<>>,
         allCacheRoutes |-> getCacheRouteNames(vueRoutes),
         retracted |-> reset.retracted]

handleConstantAndAuthRoutes(cRoutes, aRoutes, rtr, fns, cycle) ==
    LET allRoutes == cRoutes \o aRoutes
        sortRoutes == sortRoutesByOrder(allRoutes)
        vueRoutes == getAuthVueRoutes(sortRoutes)
        reset == resetVueRoutes(rtr, fns)
        added == addRoutesToVueRouter(vueRoutes, reset.router, reset.removeRouteFns, cycle)
        alls == getCacheRouteNames(vueRoutes)
    IN  [router |-> added.router,
         removeRouteFns |-> added.removeRouteFns,
         menus |-> getGlobalMenusByAuthRoutes(sortRoutes),
         cacheRoutes |-> alls,
         allCacheRoutes |-> alls,
         retracted |-> reset.retracted]

\* the patch with its router.addRoute(rootVueRoute) left out
handleUpdateRootRouteRedirectNoAdd(redirectKey, rtr, cycle) ==
    IF getRoutePath(redirectKey) # NoPath THEN RouterRemoveRoute(rtr, ROOT_ROUTE.name)
    ELSE rtr

\* the patch without its `if (redirect)` test
handleUpdateRootRouteRedirectUnguarded(redirectKey, rtr, cycle) ==
    RouterAddRoute(RouterRemoveRoute(rtr, ROOT_ROUTE.name),
                   VueRoute([ROOT_ROUTE EXCEPT !.redirect = getRoutePath(redirectKey)]),
                   Handle(cycle, 0))

handleUpdateRootRouteRedirect(redirectKey, rtr, cycle) ==
    LET redirect == getRoutePath(redirectKey)
        rootRoute == [ROOT_ROUTE EXCEPT !.redirect = redirect]
    IN  IF redirect # NoPath
        THEN RouterAddRoute(RouterRemoveRoute(rtr, rootRoute.name),
                            getAuthVueRoutes(<<rootRoute>>)[1], Handle(cycle, 0))
        ELSE rtr

\* the routes initStaticAuthRoute hands to addAuthRoutes
StaticAuthRoutes(super) ==
    IF super THEN createStaticRoutes.authRoutes
    ELSE filterAuthRoutesByRoles(createStaticRoutes.authRoutes, {})

\* store.$reset(): the state the store returns goes back to its initial value
StoreReset ==
    [routeHome |-> EnvRouteHome, menus |-> <<>>, cacheRoutes |-> <<>>,
     isInitConstantRoute |-> FALSE, isInitAuthRoute |-> FALSE]

\* addCacheRoutes with its includes test inverted
addCacheRoutesInverted(cache, routeKey) ==
    IF ~Includes(cache, routeKey) THEN cache ELSE Append(cache, routeKey)

addCacheRoutes(cache, routeKey) ==
    IF Includes(cache, routeKey) THEN cache ELSE Append(cache, routeKey)

\* removeCacheRoutes returning early also when the key is found
removeCacheRoutesNever(cache, routeKey) == cache

removeCacheRoutes(cache, routeKey) ==
    LET index == FindIndex(cache, routeKey)
    IN  IF index = 0 THEN cache ELSE Splice(cache, index)

\* isCachedRoute looking the key up in cacheRoutes instead of allCacheRoutes
isCachedRouteActive(routeKey) == Includes(cacheRoutes, routeKey)

isCachedRoute(routeKey) == Includes(allCacheRoutes, routeKey)

(***************************************************************************)
(* Init: the store as defineStore's setup leaves it.                       *)
(***************************************************************************)
Init ==
    /\ authRouteMode \in {"static", "dynamic"}
    /\ \/ authRouteMode = "static" /\ isStaticSuper \in BOOLEAN /\ userRoles \in Authorities
       \/ authRouteMode = "dynamic" /\ isStaticSuper = FALSE /\ userRoles = {}
    /\ isInitConstantRoute = FALSE
    /\ isInitAuthRoute = FALSE
    /\ routeHome = EnvRouteHome
    /\ constantRoutes = <<>>
    /\ authRoutes = <<>>
    /\ removeRouteFns = <<>>
    /\ menus = <<>>
    /\ cacheRoutes = <<>>
    /\ allCacheRoutes = <<>>
    /\ router = InitialRouter
    /\ syncCount = 0
    /\ tasks = EmptyBag
    /\ lastOp = Op("init", FALSE, NoKey, <<>>, NoKey)
    /\ events = <<>>
    /\ retracted = <<>>
    /\ hist = [resetDone |-> FALSE, authSinceReset |-> FALSE]

(***************************************************************************)
(* initConstantRoute()                                                     *)
(***************************************************************************)
\* initConstantRoute without its isInitConstantRoute guard
InitConstantRouteUnguarded ==
    /\ lastOp' = Op("initConstantRoute", isInitConstantRoute, NoKey, <<>>, NoKey)
    /\ events' = <<>>
    /\ syncCount < MaxSync
    /\ LET cRoutes == addConstantRoutes(createStaticRoutes.constantRoutes)
           s == handleConstantAndAuthRoutes(cRoutes, authRoutes, router,
                                            removeRouteFns, syncCount + 1)
       IN  /\ constantRoutes' = cRoutes
           /\ router' = s.router
           /\ removeRouteFns' = s.removeRouteFns
           /\ menus' = s.menus
           /\ cacheRoutes' = s.cacheRoutes
           /\ allCacheRoutes' = s.allCacheRoutes
           /\ retracted' = s.retracted
    /\ isInitConstantRoute' = TRUE
    /\ syncCount' = syncCount + 1
    /\ UNCHANGED <<isInitAuthRoute, routeHome, authRoutes, envVars, tasks, hist>>

InitConstantRoute ==
    /\ lastOp' = Op("initConstantRoute", isInitConstantRoute, NoKey, <<>>, NoKey)
    /\ events' = <<>>
    /\ IF isInitConstantRoute
       THEN /\ retracted' = <<>>
            /\ UNCHANGED <<storeVars, syncCount>>
       ELSE /\ syncCount < MaxSync
            /\ LET staticRoute == createStaticRoutes
                   cRoutes == addConstantRoutes(staticRoute.constantRoutes)
                   s == handleConstantAndAuthRoutes(cRoutes, authRoutes, router,
                                                    removeRouteFns, syncCount + 1)
               IN  /\ constantRoutes' = cRoutes
                   /\ router' = s.router
                   /\ removeRouteFns' = s.removeRouteFns
                   /\ menus' = s.menus
                   /\ cacheRoutes' = s.cacheRoutes
                   /\ allCacheRoutes' = s.allCacheRoutes
                   /\ retracted' = s.retracted
            /\ isInitConstantRoute' = TRUE
            /\ syncCount' = syncCount + 1
            /\ UNCHANGED <<isInitAuthRoute, routeHome, authRoutes>>
    /\ UNCHANGED <<envVars, tasks, hist>>

(***************************************************************************)
(* initAuthRoute() in static mode: initStaticAuthRoute(), then             *)
(* tabStore.initHomeTab(), with no suspension point.                       *)
(***************************************************************************)
InitAuthRouteStatic ==
    /\ authRouteMode = "static"
    /\ syncCount < MaxSync
    /\ LET aRoutes == addAuthRoutes(StaticAuthRoutes(isStaticSuper))
           s == handleConstantAndAuthRoutes(constantRoutes, aRoutes, router,
                                            removeRouteFns, syncCount + 1)
       IN  /\ authRoutes' = aRoutes
           /\ router' = s.router
           /\ removeRouteFns' = s.removeRouteFns
           /\ menus' = s.menus
           /\ cacheRoutes' = s.cacheRoutes
           /\ allCacheRoutes' = s.allCacheRoutes
           /\ retracted' = s.retracted
    /\ isInitAuthRoute' = TRUE
    /\ syncCount' = syncCount + 1
    /\ events' = <<"initHomeTab">>
    /\ lastOp' = Op("initAuthRoute", isInitAuthRoute, NoKey, <<>>, NoKey)
    /\ hist' = [hist EXCEPT !.authSinceReset = TRUE]
    /\ UNCHANGED <<envVars, isInitConstantRoute, routeHome, constantRoutes, tasks>>

(***************************************************************************)
(* initAuthRoute() in dynamic mode.  The call starts fetchGetUserRoutes()  *)
(* and suspends; the response resumes initDynamicAuthRoute; initAuthRoute  *)
(* resumes behind it and calls tabStore.initHomeTab().                     *)
(***************************************************************************)
InitAuthRouteDynamic ==
    /\ authRouteMode = "dynamic"
    /\ HasFreeTask
    /\ tasks' = Start(Task("fetch", NoKey))
    /\ lastOp' = Op("initAuthRoute", isInitAuthRoute, NoKey, <<>>, NoKey)
    /\ events' = <<"fetchGetUserRoutes">>
    /\ retracted' = <<>>
    /\ hist' = [hist EXCEPT !.authSinceReset = TRUE]
    /\ UNCHANGED <<envVars, storeVars, syncCount>>

\* the fetch answers {routes, home} without error
InitDynamicAuthRouteOk(routes, home) ==
    /\ Pending(Task("fetch", NoKey)) > 0
    /\ syncCount < MaxSync
    /\ LET aRoutes == addAuthRoutes(routes)
           s == handleConstantAndAuthRoutes(constantRoutes, aRoutes, router,
                                            removeRouteFns, syncCount + 1)
       IN  /\ authRoutes' = aRoutes
           /\ router' = handleUpdateRootRouteRedirect(home, s.router, syncCount + 1)
           /\ removeRouteFns' = s.removeRouteFns
           /\ menus' = s.menus
           /\ cacheRoutes' = s.cacheRoutes
           /\ allCacheRoutes' = s.allCacheRoutes
           /\ retracted' = s.retracted
    /\ routeHome' = home
    /\ isInitAuthRoute' = TRUE
    /\ syncCount' = syncCount + 1
    /\ tasks' = Move(Task("fetch", NoKey), Task("tabOk", NoKey))
    /\ lastOp' = Op("fetchOk", isInitAuthRoute, NoKey, routes, home)
    /\ events' = <<>>
    /\ UNCHANGED <<envVars, isInitConstantRoute, constantRoutes, hist>>

\* the error branch with setIsInitAuthRoute(true) moved behind the if
InitDynamicAuthRouteErrorSetsFlag ==
    /\ Pending(Task("fetch", NoKey)) > 0
    /\ tasks' = Move(Task("fetch", NoKey), Task("tabError", NoKey))
    /\ lastOp' = Op("fetchError", isInitAuthRoute, NoKey, <<>>, NoKey)
    /\ events' = <<"authStore.resetStore">>
    /\ retracted' = <<>>
    /\ isInitAuthRoute' = TRUE
    /\ UNCHANGED <<envVars, isInitConstantRoute, routeHome, constantRoutes, authRoutes,
                   removeRouteFns, menus, cacheRoutes, allCacheRoutes, router, syncCount, hist>>

\* the fetch answers with an error: authStore.resetStore()
InitDynamicAuthRouteError ==
    /\ Pending(Task("fetch", NoKey)) > 0
    /\ tasks' = Move(Task("fetch", NoKey), Task("tabError", NoKey))
    /\ lastOp' = Op("fetchError", isInitAuthRoute, NoKey, <<>>, NoKey)
    /\ events' = <<"authStore.resetStore">>
    /\ retracted' = <<>>
    /\ UNCHANGED <<envVars, storeVars, syncCount, hist>>

\* initAuthRoute resumes behind initDynamicAuthRoute
InitAuthRouteTab(ok) ==
    /\ Pending(Task(IF ok THEN "tabOk" ELSE "tabError", NoKey)) > 0
    /\ tasks' = Finish(Task(IF ok THEN "tabOk" ELSE "tabError", NoKey))
    /\ lastOp' = Op("initHomeTab", ok, NoKey, <<>>, NoKey)
    /\ events' = <<"initHomeTab">>
    /\ retracted' = <<>>
    /\ UNCHANGED <<envVars, storeVars, syncCount, hist>>

(***************************************************************************)
(* resetStore(): $reset(), resetVueRoutes(), initConstantRoute().          *)
(***************************************************************************)
ResetStore ==
    /\ syncCount < MaxSync
    /\ LET cleared == StoreReset
           reset == resetVueRoutes(router, removeRouteFns)
           cRoutes == addConstantRoutes(createStaticRoutes.constantRoutes)
           s == handleConstantAndAuthRoutes(cRoutes, authRoutes, reset.router,
                                            reset.removeRouteFns, syncCount + 1)
       IN  /\ isInitAuthRoute' = cleared.isInitAuthRoute
           /\ routeHome' = cleared.routeHome
           /\ retracted' = reset.retracted \o s.retracted
           /\ IF cleared.isInitConstantRoute
              THEN /\ router' = reset.router
                   /\ removeRouteFns' = reset.removeRouteFns
                   /\ menus' = cleared.menus
                   /\ cacheRoutes' = cleared.cacheRoutes
                   /\ isInitConstantRoute' = cleared.isInitConstantRoute
                   /\ UNCHANGED <<constantRoutes, allCacheRoutes>>
              ELSE /\ constantRoutes' = cRoutes
                   /\ router' = s.router
                   /\ removeRouteFns' = s.removeRouteFns
                   /\ menus' = s.menus
                   /\ cacheRoutes' = s.cacheRoutes
                   /\ allCacheRoutes' = s.allCacheRoutes
                   /\ isInitConstantRoute' = TRUE
    /\ syncCount' = syncCount + 1
    /\ lastOp' = Op("resetStore", isInitAuthRoute, NoKey, <<>>, NoKey)
    /\ events' = <<>>
    /\ hist' = [resetDone |-> TRUE, authSinceReset |-> FALSE]
    /\ UNCHANGED <<envVars, authRoutes, tasks>>

(***************************************************************************)
(* reCacheRoutesByKey(routeKey): up to the await of appStore.reloadPage(), *)
(* and from the reload's completion on.                                    *)
(***************************************************************************)
ReCacheRoutesByKey(routeKey) ==
    /\ retracted' = <<>>
    /\ IF ~isCachedRoute(routeKey)
       THEN /\ events' = <<>>
            /\ lastOp' = Op("reCacheRoutesByKey", FALSE, routeKey, <<>>, NoKey)
            /\ UNCHANGED <<cacheRoutes, tasks>>
       ELSE /\ HasFreeTask
            /\ cacheRoutes' = removeCacheRoutes(cacheRoutes, routeKey)
            /\ events' = <<"reloadPage">>
            /\ tasks' = Start(Task("reload", routeKey))
            /\ lastOp' = Op("reCacheRoutesByKey", TRUE, routeKey, <<>>, NoKey)
    /\ UNCHANGED <<envVars, isInitConstantRoute, isInitAuthRoute, routeHome, constantRoutes,
                   authRoutes, removeRouteFns, menus, allCacheRoutes, router, syncCount, hist>>

ReloadDone(routeKey) ==
    /\ Pending(Task("reload", routeKey)) > 0
    /\ cacheRoutes' = addCacheRoutes(cacheRoutes, routeKey)
    /\ tasks' = Finish(Task("reload", routeKey))
    /\ lastOp' = Op("reloadDone", Includes(cacheRoutes, routeKey), routeKey, <<>>, NoKey)
    /\ events' = <<>>
    /\ retracted' = <<>>
    /\ UNCHANGED <<envVars, isInitConstantRoute, isInitAuthRoute, routeHome, constantRoutes,
                   authRoutes, removeRouteFns, menus, allCacheRoutes, router, syncCount, hist>>

(***************************************************************************)
(* reCacheRoutesByKeys(routeKeys): `for await` suspends before each key,   *)
(* then reCacheRoutesByKey(key) is awaited.                                *)
(***************************************************************************)
ReCacheRoutesByKeys(routeKeys) ==
    /\ HasFreeTask
    /\ tasks' = Start(KeysTask("loop", NoKey, routeKeys))
    /\ lastOp' = Op("reCacheRoutesByKeys", FALSE, NoKey, <<>>, NoKey)
    /\ events' = <<>>
    /\ retracted' = <<>>
    /\ UNCHANGED <<envVars, storeVars, syncCount, hist>>

\* the loop without the await of reCacheRoutesByKey(key): it goes on to the
\* next key while the reload of the last one is pending
ReCacheKeysNextNoAwait(task) ==
    /\ task.pc \in {"loop", "keysReload"}
    /\ task.rest # <<>>
    /\ isCachedRoute(Head(task.rest))
    /\ cacheRoutes' = removeCacheRoutes(cacheRoutes, Head(task.rest))
    /\ events' = <<"reloadPage">>
    /\ tasks' = Move(task, KeysTask("keysReload", Head(task.rest), Tail(task.rest)))
    /\ lastOp' = Op("keysNext", TRUE, Head(task.rest), <<>>, NoKey)
    /\ retracted' = <<>>
    /\ UNCHANGED <<envVars, isInitConstantRoute, isInitAuthRoute, routeHome, constantRoutes,
                   authRoutes, removeRouteFns, menus, allCacheRoutes, router, syncCount, hist>>

\* the loop takes its next key, or ends
ReCacheKeysNext(task) ==
    /\ task.pc = "loop"
    /\ retracted' = <<>>
    /\ IF task.rest = <<>>
       THEN /\ tasks' = Finish(task)
            /\ events' = <<>>
            /\ lastOp' = Op("keysEnd", FALSE, NoKey, <<>>, NoKey)
            /\ UNCHANGED cacheRoutes
       ELSE IF ~isCachedRoute(Head(task.rest))
            THEN /\ tasks' = Move(task, KeysTask("loop", NoKey, Tail(task.rest)))
                 /\ events' = <<>>
                 /\ lastOp' = Op("keysNext", FALSE, Head(task.rest), <<>>, NoKey)
                 /\ UNCHANGED cacheRoutes
            ELSE /\ cacheRoutes' = removeCacheRoutes(cacheRoutes, Head(task.rest))
                 /\ events' = <<"reloadPage">>
                 /\ tasks' = Move(task, KeysTask("keysReload", Head(task.rest),
                                                 Tail(task.rest)))
                 /\ lastOp' = Op("keysNext", TRUE, Head(task.rest), <<>>, NoKey)
    /\ UNCHANGED <<envVars, isInitConstantRoute, isInitAuthRoute, routeHome, constantRoutes,
                   authRoutes, removeRouteFns, menus, allCacheRoutes, router, syncCount, hist>>

\* the reload of the loop's key completes
ReCacheKeysReloadDone(task) ==
    /\ task.pc = "keysReload"
    /\ cacheRoutes' = addCacheRoutes(cacheRoutes, task.key)
    /\ tasks' = Move(task, KeysTask("loop", NoKey, task.rest))
    /\ lastOp' = Op("keysReloadDone", Includes(cacheRoutes, task.key), task.key, <<>>, NoKey)
    /\ events' = <<>>
    /\ retracted' = <<>>
    /\ UNCHANGED <<envVars, isInitConstantRoute, isInitAuthRoute, routeHome, constantRoutes,
                   authRoutes, removeRouteFns, menus, allCacheRoutes, router, syncCount, hist>>

Next ==
    \/ InitConstantRoute
    \/ InitAuthRouteStatic
    \/ InitAuthRouteDynamic
    \/ \E data \in FetchData : InitDynamicAuthRouteOk(data.routes, data.home)
    \/ InitDynamicAuthRouteError
    \/ \E ok \in BOOLEAN : InitAuthRouteTab(ok)
    \/ ResetStore
    \/ \E routeKey \in RouteKeys : ReCacheRoutesByKey(routeKey)
    \/ \E routeKey \in RouteKeys : ReloadDone(routeKey)

Spec == Init /\ [][Next]_vars

\* the route operations together with reCacheRoutesByKeys
NextKeys ==
    \/ InitConstantRoute
    \/ InitAuthRouteStatic
    \/ InitAuthRouteDynamic
    \/ \E data \in FetchData : InitDynamicAuthRouteOk(data.routes, data.home)
    \/ InitDynamicAuthRouteError
    \/ \E ok \in BOOLEAN : InitAuthRouteTab(ok)
    \/ ResetStore
    \/ \E routeKeys \in KeySeqs : ReCacheRoutesByKeys(routeKeys)
    \/ \E task \in BagToSet(tasks) : ReCacheKeysNext(task)
    \/ \E task \in BagToSet(tasks) : ReCacheKeysReloadDone(task)

SpecKeys == Init /\ [][NextKeys]_vars

(***************************************************************************)
(* Properties.                                                             *)
(***************************************************************************)
\* registrations of the live router whose route is not a constant route
RegisteredAuth == {e \in router : ~e.route.meta.constant}

\* every route of the list is registered in the live router as defined
AllRegistered(routes, rtr) ==
    \A i \in DOMAIN routes : \E e \in rtr : e.route = VueRoute(routes[i])

\* the registration of the root route
RootRedirects(rtr) == {e.route.redirect : e \in {x \in rtr : x.route.name = "root"}}

ConstantOnly == sortRoutesByOrder(createStaticRoutes.constantRoutes)

\* C1: after resetStore() no registration of an earlier synchronization is
\* live, the auth flag is false and no authorized route is stored, the
\* constant flag is true with the constant routes registered, and menus and
\* cache sets are those of the constant routes alone.
C1_ResetStoreClearsAuthRoutes ==
    lastOp.op = "resetStore" =>
        /\ \A e \in router : e.handle.cycle = syncCount \/ e.handle.pos = 0
        /\ ~isInitAuthRoute
        /\ authRoutes = <<>>
        /\ isInitConstantRoute
        /\ AllRegistered(createStaticRoutes.constantRoutes, router)
        /\ menus = getGlobalMenusByAuthRoutes(ConstantOnly)
        /\ cacheRoutes = getCacheRouteNames(getAuthVueRoutes(ConstantOnly))
        /\ allCacheRoutes = getCacheRouteNames(getAuthVueRoutes(ConstantOnly))

\* C2: once resetStore() has completed, and until initAuthRoute() is called
\* again, no authorized-only route is registered and the auth flag is false.
C2_NoAuthRouteUntilInitAuthRoute ==
    (hist.resetDone /\ ~hist.authSinceReset) =>
        (~isInitAuthRoute /\ RegisteredAuth = {})

\* C3: the step in which the dynamic fetch fails leaves the store's route
\* state as it was, does not set the auth flag, and calls the Auth
\* collaborator's reset exactly once.
C3_FetchFailureLeavesRouteState ==
    [][lastOp'.op = "fetchError" =>
          /\ UNCHANGED storeVars
          /\ isInitAuthRoute' = isInitAuthRoute
          /\ events' = <<"authStore.resetStore">>]_vars

C3_Witness ==
    /\ lastOp.op = "fetchError"
    /\ events = <<"authStore.resetStore">>
    /\ ~isInitAuthRoute
    /\ isInitConstantRoute

\* C4: whenever tabStore.initHomeTab() is called, the auth flag is true and
\* the stored authorized routes are registered.
C4_HomeTabOnlyWhenAuthReady ==
    Includes(events, "initHomeTab") =>
        (isInitAuthRoute /\ Names(authRoutes) \subseteq RegisteredNames(router))

\* the index of the last definition of name n in routes
LastIndex(routes, n) ==
    CHOOSE i \in DOMAIN routes :
        routes[i].name = n /\ \A j \in DOMAIN routes : routes[j].name = n => j <= i

C6_StaticFilterByAuthority ==
    (lastOp.op = "initAuthRoute" /\ authRouteMode = "static") =>
        /\ isInitAuthRoute
        /\ authRoutes =
              IF isStaticSuper THEN createStaticRoutes.authRoutes
              ELSE filterAuthRoutesByRoles(createStaticRoutes.authRoutes, userRoles)
        /\ AllRegistered(authRoutes, router)

\* C7: a call of initConstantRoute() with the constant flag already true
\* changes nothing.
C7_InitConstantRouteIdempotent ==
    [][(lastOp'.op = "initConstantRoute" /\ isInitConstantRoute) =>
          /\ UNCHANGED <<storeVars, tasks, syncCount>>
          /\ retracted' = <<>>
          /\ events' = <<>>]_vars

C7_Witness ==
    /\ lastOp.op = "initConstantRoute"
    /\ lastOp.pre
    /\ isInitConstantRoute
    /\ AllRegistered(createStaticRoutes.constantRoutes, router)

\* C8: the auth flag is true only when the constant flag is true.
C8_AuthReadyImpliesConstantReady == isInitAuthRoute => isInitConstantRoute

\* C9: with the auth flag false no authorized route is registered, with it
\* true every stored authorized route is registered, and with the constant
\* flag true the constant routes are registered.
C9_NoPartialNavigationState ==
    /\ ~isInitAuthRoute => RegisteredAuth = {}
    /\ isInitAuthRoute =>
          {e.route : e \in RegisteredAuth} = {VueRoute(authRoutes[i]) : i \in DOMAIN authRoutes}
    /\ isInitConstantRoute => Names(constantRoutes) \subseteq RegisteredNames(router)

\* C10: reCacheRoutesByKey(k) with k in the allow set calls the page reload
\* once and leaves k out of the active set for the reload; when the reload
\* completes with no step in between, k is back in the active set, no
\* second reload is called and the allow set is as it was.
C10_ReCacheReloadsOnce ==
    [][/\ (lastOp'.op = "reCacheRoutesByKey" /\ Includes(allCacheRoutes, lastOp'.key)) =>
            /\ events' = <<"reloadPage">>
            /\ ~Includes(cacheRoutes', lastOp'.key)
            /\ allCacheRoutes' = allCacheRoutes
            /\ CopiesIn(Task("reload", lastOp'.key), tasks') =
                   CopiesIn(Task("reload", lastOp'.key), tasks) + 1
       /\ (/\ lastOp.op = "reCacheRoutesByKey"
           /\ lastOp.pre
           /\ lastOp'.op = "reloadDone"
           /\ lastOp'.key = lastOp.key
           /\ Pending(Task("reload", lastOp.key)) = 1) =>
            /\ ~Includes(cacheRoutes, lastOp.key)
            /\ Includes(cacheRoutes', lastOp.key)
            /\ Includes(allCacheRoutes', lastOp.key)
            /\ allCacheRoutes' = allCacheRoutes
            /\ events' = <<>>
            /\ CopiesIn(Task("reload", lastOp.key), tasks') = 0]_vars

C10_Witness ==
    /\ lastOp.op = "reloadDone"
    /\ ~lastOp.pre
    /\ NumTasks = 0
    /\ Includes(cacheRoutes, lastOp.key)
    /\ Includes(allCacheRoutes, lastOp.key)

\* C11: reCacheRoutesByKey(k) with k outside the allow set calls no page
\* reload and leaves the allow set, the active set and the pending calls as
\* they were, also when k is in the active set.
C11_ReCacheOutsideAllowSetIsNoOp ==
    [][(lastOp'.op = "reCacheRoutesByKey" /\ ~Includes(allCacheRoutes, lastOp'.key)) =>
          /\ events' = <<>>
          /\ UNCHANGED <<storeVars, tasks>>]_vars

C11_Witness ==
    /\ lastOp.op = "reCacheRoutesByKey"
    /\ ~lastOp.pre
    /\ Includes(cacheRoutes, lastOp.key)
    /\ ~Includes(allCacheRoutes, lastOp.key)
    /\ events = <<>>

\* C13: a key of the allow set with no reCache call pending for it is in
\* the active cache set.
C13_NoKeyLeftEvicted ==
    \A k \in RouteKeys :
        (Includes(allCacheRoutes, k) /\ \A t \in BagToSet(tasks) : t.key # k) =>
            Includes(cacheRoutes, k)

\* both of two overlapping calls for one key are done, the second completion
\* finding the key already back
C13_Witness ==
    /\ lastOp.op = "reloadDone"
    /\ lastOp.pre
    /\ \A t \in BagToSet(tasks) : t.key # lastOp.key
    /\ Includes(allCacheRoutes, lastOp.key)
    /\ Includes(cacheRoutes, lastOp.key)

\* C14: every key of cacheRoutes is a key of allCacheRoutes.
C14_ActiveWithinAllowSet == Range(cacheRoutes) \subseteq Range(allCacheRoutes)

\* the registrations of every route but the root route
NonRoot(rtr) == {e \in rtr : e.route.name # "root"}

Stored == constantRoutes \o authRoutes

\* C15: the routes the store has registered are those of the merged list of
\* the last synchronization, key for key, and each of them under a handle of
\* that synchronization: nothing of an earlier one is left.
C15_RegisteredIsMergedTree ==
    /\ RegisteredNames(NonRoot(router)) = Names(Stored)
    /\ \A e \in NonRoot(router) :
          e.handle.cycle = syncCount /\ Includes(removeRouteFns, e.handle)

\* a second synchronization with another tree that overlaps the first
C15_Witness ==
    /\ syncCount >= 2
    /\ lastOp.op = "fetchOk"
    /\ lastOp.pre
    /\ retracted # <<>>
    /\ Names(lastOp.routes) = {"manage"}
    /\ RegisteredNames(NonRoot(router)) = {"about", "login", "manage"}

\* C16: the merged list holds each key once, and for a key that a constant
\* and an authorized route share it holds the authorized definition: one
\* handle and at most one menu per key, the authorized definition live.
C16_MergedKeysUnique ==
    /\ Len(removeRouteFns) = Cardinality(Names(Stored))
    /\ \A i, j \in DOMAIN menus : menus[i].key = menus[j].key => i = j
    /\ isInitAuthRoute => AllRegistered(authRoutes, router)

\* C17: the root patch of a successful dynamic fetch leaves every
\* registration but the root's, the handle list, the route lists, the menus
\* and the cache sets as the synchronization made them, and with a home key
\* that has no path it leaves the root registration as it was too.
C17_RootPatchTouchesRootOnly ==
    [][lastOp'.op = "fetchOk" =>
          LET sorted == sortRoutesByOrder(constantRoutes \o authRoutes')
              path == getRoutePath(lastOp'.home)
          IN  /\ {e.handle : e \in NonRoot(router')} \subseteq Range(removeRouteFns')
              /\ \A i \in DOMAIN sorted :
                    \E e \in NonRoot(router') : e.route.name = sorted[i].name
              /\ \A i \in DOMAIN removeRouteFns' :
                    removeRouteFns'[i] = Handle(syncCount', i)
              /\ Len(removeRouteFns') = Len(sorted)
              /\ constantRoutes' = constantRoutes
              /\ menus' = getGlobalMenusByAuthRoutes(sorted)
              /\ cacheRoutes' = getCacheRouteNames(getAuthVueRoutes(sorted))
              /\ allCacheRoutes' = cacheRoutes'
              /\ IF path = NoPath
                 THEN router' \ NonRoot(router') = router \ NonRoot(router)
                 ELSE {e.route : e \in router' \ NonRoot(router')} =
                          {VueRoute([ROOT_ROUTE EXCEPT !.redirect = path])}]_vars

C17_Witness ==
    /\ lastOp.op = "fetchOk"
    /\ getRoutePath(lastOp.home) = NoPath
    /\ router \ NonRoot(router) = InitialRouter
    /\ NonRoot(router) # {}

\* C18: after resetStore() the recorded home key is the configured one and
\* the root route redirects to its path; with no call pending the root
\* route redirects to the path of the recorded home key.
C18_RootRedirectFollowsHomeKey ==
    /\ lastOp.op = "resetStore" =>
          (routeHome = EnvRouteHome /\ RootRedirects(router) = {getRoutePath(EnvRouteHome)})
    /\ (NumTasks = 0 /\ getRoutePath(routeHome) # NoPath) =>
          RootRedirects(router) = {getRoutePath(routeHome)}

\* C19: removeRouteFns holds one handle per route of the last
\* synchronization and no other; a step invokes only handles of the list,
\* each once, and none of them stays in the list.
C19_HandleListRebuiltEachCycle ==
    [][/\ Len(removeRouteFns') = Len(constantRoutes') + Len(authRoutes')
       /\ \A i \in DOMAIN removeRouteFns' : removeRouteFns'[i] = Handle(syncCount', i)
       /\ \A i, j \in DOMAIN retracted' : retracted'[i] = retracted'[j] => i = j
       /\ Range(retracted') \subseteq Range(removeRouteFns)
       /\ syncCount' # syncCount => Range(retracted') = Range(removeRouteFns)
       /\ \A h \in Range(removeRouteFns) : h.cycle <= syncCount]_vars

C19_Witness ==
    /\ syncCount >= 2
    /\ retracted # <<>>
    /\ Len(removeRouteFns) = Len(Stored)
    /\ Range(retracted) \cap Range(removeRouteFns) = {}
    /\ Len(removeRouteFns) < Len(retracted)

\* C20: a synchronization sets allCacheRoutes to the cache names of the
\* routes it registers and cacheRoutes to the same keys, whatever was
\* removed before; a step that is no synchronization leaves allCacheRoutes
\* as it was.
C20_SyncRestoresActiveSet ==
    [][IF syncCount' # syncCount
       THEN /\ allCacheRoutes' =
                  getCacheRouteNames(getAuthVueRoutes(
                      sortRoutesByOrder(constantRoutes' \o authRoutes')))
            /\ cacheRoutes' = allCacheRoutes'
       ELSE allCacheRoutes' = allCacheRoutes]_vars

\* a synchronization while a reCacheRoutesByKey call awaits its reload
C20_Witness ==
    /\ lastOp.op \in {"initConstantRoute", "initAuthRoute", "fetchOk", "resetStore"}
    /\ retracted # <<>>
    /\ \E k \in RouteKeys :
          /\ Pending(Task("reload", k)) > 0
          /\ Includes(cacheRoutes, k)
    /\ cacheRoutes = allCacheRoutes

\* C12: each reload of a reCacheRoutesByKeys call starts from the loop head
\* of a call that awaits no reload, for the first key the call has still to
\* handle, and is called exactly when that key is in the allow set; the
\* completion of the reload puts the key back before the call goes on with
\* the keys behind it.
C12_ReCacheKeysInSequence ==
    [][/\ lastOp'.op = "keysNext" =>
            \E t \in BagToSet(tasks) :
                /\ t.pc = "loop"
                /\ t.rest # <<>>
                /\ Head(t.rest) = lastOp'.key
                /\ IF Includes(allCacheRoutes, lastOp'.key)
                   THEN /\ events' = <<"reloadPage">>
                        /\ tasks' = Move(t, KeysTask("keysReload", lastOp'.key, Tail(t.rest)))
                   ELSE /\ events' = <<>>
                        /\ tasks' = Move(t, KeysTask("loop", NoKey, Tail(t.rest)))
       /\ lastOp'.op = "keysReloadDone" =>
            /\ events' = <<>>
            /\ Includes(cacheRoutes', lastOp'.key)
            /\ \E t \in BagToSet(tasks) :
                  /\ t.pc = "keysReload"
                  /\ t.key = lastOp'.key
                  /\ tasks' = Move(t, KeysTask("loop", NoKey, t.rest))
       /\ lastOp'.op \in {"keysEnd", "reCacheRoutesByKeys"} =>
            (events' = <<>> /\ UNCHANGED storeVars)]_vars

\* a call has reloaded the last of its three keys
C12_Witness ==
    /\ lastOp.op = "keysReloadDone"
    /\ lastOp.key = "home"
    /\ ~lastOp.pre
    /\ Includes(cacheRoutes, "home")
    /\ tasks = SetToBag({KeysTask("loop", NoKey, <<>>)})

====
